---- MODULE Spec2Model ----
(***************************************************************************)
(* The algebraic capability framework of chapters/c1/definitions.rs and    *)
(* the arithmetic of Complex<T> and List<T, N> in its two revisions        *)
(* (definitions.rs and definitions/mod.rs).                                *)
(*                                                                         *)
(* Part A models trait resolution: a goal "Self: Trait<Arg>" is discharged *)
(* by the one impl whose header unifies with it, which replaces the goal   *)
(* by the impl's where-clauses; a goal no impl matches rejects the query.  *)
(* Part B models the arithmetic bodies on machine integers and on f64.     *)
(***************************************************************************)
EXTENDS Integers, Sequences, FiniteSets, TLC

VARIABLES root, stack, selected, status,
          ty, x, y, op, result, overflow_checks

traitVars == <<root, stack, selected, status>>
arithVars == <<ty, x, y, op, result, overflow_checks>>
vars == <<root, stack, selected, status, ty, x, y, op, result, overflow_checks>>

(***************************************************************************)
(* Part A.  Types and goals                                                *)
(***************************************************************************)

\* Nesting depth of the generic wrappers in the type universe.
MaxDepth == 2

\* The const parameter N of List<T, N>; resolution never inspects it.
ListLens == {3}

Prims == {<<"usize">>, <<"isize">>, <<"f64">>}

ComplexOf(t) == <<"Complex", t>>

ListOf(t, n) == <<"List", t, n>>

IsComplex(t) == t[1] = "Complex"

IsList(t) == t[1] = "List"

\* The type parameter T of Complex<T> or List<T, N>.
Elem(t) == t[2]

RECURSIVE TypesUpTo(_)
TypesUpTo(d) ==
    IF d = 0 THEN Prims
    ELSE LET S == TypesUpTo(d - 1)
         IN  Prims \cup {ComplexOf(t) : t \in S}
                   \cup {ListOf(t, n) : t \in S, n \in ListLens}

Types == TypesUpTo(MaxDepth)

NoArg == <<>>

UnaryTraits == {"Add", "Mul", "Sub", "Neg", "Copy", "Zero", "One",
                "Commutative", "Associative", "Identity", "Inverse"}

BinaryTraits == {"MulScalar", "MulIdent", "Distributive", "VectorSpace"}

\* The goal  t: tr
G1(tr, t) == [tr |-> tr, self |-> t, arg |-> NoArg]

\* The goal  t: tr<a>
G2(tr, t, a) == [tr |-> tr, self |-> t, arg |-> a]

Goals ==
    {G1(tr, t) : tr \in UnaryTraits, t \in Types}
        \cup {G2(tr, t, a) : tr \in BinaryTraits, t \in Types, a \in Types}

\* An impl whose header unifies with the goal: its name and where-clauses.
Rule(name, nested) == {[impl |-> name, where |-> nested]}

(***************************************************************************)
(* The impls.  Each operator yields the impl as a candidate when its       *)
(* header unifies with goal g, and nothing otherwise.  Add, Mul, Sub and   *)
(* Neg goals stand for the bound with Output = Self, which is the only     *)
(* form the where-clauses use and the form every impl provides.            *)
(***************************************************************************)

\* The operator and Copy impls the language gives the primitive types:
\* usize has no Neg.
ImplStdPrim(g) ==
    IF /\ g.self \in Prims
       /\ \/ g.tr \in {"Add", "Mul", "Sub", "Copy"}
          \/ g.tr = "Neg" /\ g.self \in {<<"isize">>, <<"f64">>}
    THEN Rule("StdPrim", <<>>) ELSE {}

\* Faulty variant: Complex<T> without the Copy derive (as in definitions/mod.rs).
ImplCopyComplexMissing(g) == {}

\* #[derive(Clone, Copy)] pub struct Complex<T>
ImplCopyComplex(g) ==
    IF g.tr = "Copy" /\ IsComplex(g.self)
    THEN Rule("CopyComplex", <<G1("Copy", Elem(g.self))>>) ELSE {}

\* #[derive(Clone, Copy)] pub struct List<T, const N: usize>
ImplCopyList(g) ==
    IF g.tr = "Copy" /\ IsList(g.self)
    THEN Rule("CopyList", <<G1("Copy", Elem(g.self))>>) ELSE {}

\* impl<T> Add for Complex<T> where T: Add<Output = T>
ImplAddComplex(g) ==
    IF g.tr = "Add" /\ IsComplex(g.self)
    THEN Rule("AddComplex", <<G1("Add", Elem(g.self))>>) ELSE {}

\* impl<T> Mul for Complex<T> where T: Mul + Sub + Add + Copy
ImplMulComplex(g) ==
    IF g.tr = "Mul" /\ IsComplex(g.self)
    THEN Rule("MulComplex", <<G1("Mul", Elem(g.self)), G1("Sub", Elem(g.self)),
                              G1("Add", Elem(g.self)), G1("Copy", Elem(g.self))>>)
    ELSE {}

\* impl<T> Neg for Complex<T> where T: Neg<Output = T>
ImplNegComplex(g) ==
    IF g.tr = "Neg" /\ IsComplex(g.self)
    THEN Rule("NegComplex", <<G1("Neg", Elem(g.self))>>) ELSE {}

\* impl<T, const N: usize> Add for List<T, N> where T: Add<Output = T> + Copy
ImplAddList(g) ==
    IF g.tr = "Add" /\ IsList(g.self)
    THEN Rule("AddList", <<G1("Add", Elem(g.self)), G1("Copy", Elem(g.self))>>)
    ELSE {}

\* impl<T, const N: usize> Neg for List<T, N> where T: Neg<Output = T>
ImplNegList(g) ==
    IF g.tr = "Neg" /\ IsList(g.self)
    THEN Rule("NegList", <<G1("Neg", Elem(g.self))>>) ELSE {}

\* impl Zero for usize / f64 / isize
ImplZeroPrim(g) ==
    IF g.tr = "Zero" /\ g.self \in Prims THEN Rule("ZeroPrim", <<>>) ELSE {}

\* impl<T> Zero for Complex<T> where T: Zero
ImplZeroComplex(g) ==
    IF g.tr = "Zero" /\ IsComplex(g.self)
    THEN Rule("ZeroComplex", <<G1("Zero", Elem(g.self))>>) ELSE {}

\* impl<T, const N: usize> Zero for List<T, N> where T: Zero
ImplZeroList(g) ==
    IF g.tr = "Zero" /\ IsList(g.self)
    THEN Rule("ZeroList", <<G1("Zero", Elem(g.self))>>) ELSE {}

\* impl One for usize / isize / f64
ImplOnePrim(g) ==
    IF g.tr = "One" /\ g.self \in Prims THEN Rule("OnePrim", <<>>) ELSE {}

\* impl<T> One for Complex<T> where T: One
ImplOneComplex(g) ==
    IF g.tr = "One" /\ IsComplex(g.self)
    THEN Rule("OneComplex", <<G1("One", Elem(g.self))>>) ELSE {}

\* impl<T, const N: usize> One for List<T, N> where T: One
ImplOneList(g) ==
    IF g.tr = "One" /\ IsList(g.self)
    THEN Rule("OneList", <<G1("One", Elem(g.self))>>) ELSE {}

\* Faulty variant: the scalar type is not tied to Self.
ImplMulScalarAny(g) ==
    IF g.tr = "MulScalar"
    THEN Rule("MulScalarSelf", <<G1("Mul", g.self)>>) ELSE {}

\* impl<T> MulScalar<T> for T where T: Mul<T, Output = T>
ImplMulScalarSelf(g) ==
    IF g.tr = "MulScalar" /\ g.self = g.arg
    THEN Rule("MulScalarSelf", <<G1("Mul", g.self)>>) ELSE {}

\* Faulty variant: element-wise scalar multiplication for Complex<T> as well.
ImplMulScalarWrapper(g) ==
    IF g.tr = "MulScalar" /\ (IsList(g.self) \/ IsComplex(g.self))
       /\ Elem(g.self) = g.arg
    THEN Rule("MulScalarList", <<G1("Mul", g.arg), G1("Copy", g.arg)>>) ELSE {}

\* impl<T, const N: usize> MulScalar<T> for List<T, N> where T: Mul<Output = T> + Copy
ImplMulScalarList(g) ==
    IF g.tr = "MulScalar" /\ IsList(g.self) /\ Elem(g.self) = g.arg
    THEN Rule("MulScalarList", <<G1("Mul", g.arg), G1("Copy", g.arg)>>) ELSE {}

\* impl<T> Commutative for Complex<T> where T: Commutative
ImplCommutativeComplex(g) ==
    IF g.tr = "Commutative" /\ IsComplex(g.self)
    THEN Rule("CommutativeComplex", <<G1("Commutative", Elem(g.self))>>) ELSE {}

\* impl<T, const N: usize> Commutative for List<T, N> where T: Commutative, T: Copy
ImplCommutativeList(g) ==
    IF g.tr = "Commutative" /\ IsList(g.self)
    THEN Rule("CommutativeList",
              <<G1("Commutative", Elem(g.self)), G1("Copy", Elem(g.self))>>)
    ELSE {}

\* impl Commutative for f64
ImplCommutativeF64(g) ==
    IF g.tr = "Commutative" /\ g.self = <<"f64">>
    THEN Rule("CommutativeF64", <<>>) ELSE {}

\* impl<T> Associative for Complex<T> where T: Associative
ImplAssociativeComplex(g) ==
    IF g.tr = "Associative" /\ IsComplex(g.self)
    THEN Rule("AssociativeComplex", <<G1("Associative", Elem(g.self))>>) ELSE {}

\* impl<T, const N: usize> Associative for List<T, N> where T: Associative, T: Copy
ImplAssociativeList(g) ==
    IF g.tr = "Associative" /\ IsList(g.self)
    THEN Rule("AssociativeList",
              <<G1("Associative", Elem(g.self)), G1("Copy", Elem(g.self))>>)
    ELSE {}

\* impl Associative for f64
ImplAssociativeF64(g) ==
    IF g.tr = "Associative" /\ g.self = <<"f64">>
    THEN Rule("AssociativeF64", <<>>) ELSE {}

\* impl<T> Identity for Complex<T> where T: Identity
ImplIdentityComplex(g) ==
    IF g.tr = "Identity" /\ IsComplex(g.self)
    THEN Rule("IdentityComplex", <<G1("Identity", Elem(g.self))>>) ELSE {}

\* impl<T, const N: usize> Identity for List<T, N> where T: Identity + Copy
ImplIdentityList(g) ==
    IF g.tr = "Identity" /\ IsList(g.self)
    THEN Rule("IdentityList",
              <<G1("Identity", Elem(g.self)), G1("Copy", Elem(g.self))>>)
    ELSE {}

\* Faulty variant: the marker impl names usize instead of f64.
ImplIdentityUsize(g) ==
    IF g.tr = "Identity" /\ g.self = <<"usize">>
    THEN Rule("IdentityF64", <<>>) ELSE {}

\* impl Identity for f64
ImplIdentityF64(g) ==
    IF g.tr = "Identity" /\ g.self = <<"f64">>
    THEN Rule("IdentityF64", <<>>) ELSE {}

\* impl<T> Inverse for Complex<T> where T: Inverse
ImplInverseComplex(g) ==
    IF g.tr = "Inverse" /\ IsComplex(g.self)
    THEN Rule("InverseComplex", <<G1("Inverse", Elem(g.self))>>) ELSE {}

\* impl<T, const N: usize> Inverse for List<T, N> where T: Inverse + Copy
ImplInverseList(g) ==
    IF g.tr = "Inverse" /\ IsList(g.self)
    THEN Rule("InverseList",
              <<G1("Inverse", Elem(g.self)), G1("Copy", Elem(g.self))>>)
    ELSE {}

\* impl Inverse for f64
ImplInverseF64(g) ==
    IF g.tr = "Inverse" /\ g.self = <<"f64">>
    THEN Rule("InverseF64", <<>>) ELSE {}

\* impl<T> MulIdent<T> for Complex<T> where T: One, Self: MulScalar<T>
ImplMulIdentComplex(g) ==
    IF g.tr = "MulIdent" /\ IsComplex(g.self) /\ Elem(g.self) = g.arg
    THEN Rule("MulIdentComplex",
              <<G1("One", g.arg), G2("MulScalar", g.self, g.arg)>>)
    ELSE {}

\* impl<T> MulIdent<T> for T where T: MulScalar<T> + One
ImplMulIdentSelf(g) ==
    IF g.tr = "MulIdent" /\ g.self = g.arg
    THEN Rule("MulIdentSelf",
              <<G2("MulScalar", g.self, g.self), G1("One", g.self)>>)
    ELSE {}

\* impl<T, const N: usize> MulIdent<T> for List<T, N> where T: One, Self: MulScalar<T>
ImplMulIdentList(g) ==
    IF g.tr = "MulIdent" /\ IsList(g.self) /\ Elem(g.self) = g.arg
    THEN Rule("MulIdentList",
              <<G1("One", g.arg), G2("MulScalar", g.self, g.arg)>>)
    ELSE {}

\* impl Distributive<f64> for f64
ImplDistributiveF64(g) ==
    IF g.tr = "Distributive" /\ g.self = <<"f64">> /\ g.arg = <<"f64">>
    THEN Rule("DistributiveF64", <<>>) ELSE {}

\* impl<T, X> Distributive<X> for Complex<T> where Self: MulScalar<X>
ImplDistributiveComplex(g) ==
    IF g.tr = "Distributive" /\ IsComplex(g.self)
    THEN Rule("DistributiveComplex", <<G2("MulScalar", g.self, g.arg)>>) ELSE {}

\* impl<T, X, const N: usize> Distributive<X> for List<T, N> where Self: MulScalar<X>
ImplDistributiveList(g) ==
    IF g.tr = "Distributive" /\ IsList(g.self)
    THEN Rule("DistributiveList", <<G2("MulScalar", g.self, g.arg)>>) ELSE {}

\* Faulty variant: the bound V: Inverse is left out.
ImplVectorSpaceNoInverse(g) ==
    IF g.tr = "VectorSpace"
    THEN Rule("VectorSpace",
              <<G1("Commutative", g.self), G1("Associative", g.self),
                G1("Identity", g.self),
                G2("MulIdent", g.self, g.arg), G2("Distributive", g.self, g.arg),
                G1("One", g.arg)>>)
    ELSE {}

\* impl<V, F> VectorSpace<F> for V where V: Commutative, V: Associative,
\* V: Identity, V: Inverse, V: MulIdent<F>, V: Distributive<F>, F: One
ImplVectorSpace(g) ==
    IF g.tr = "VectorSpace"
    THEN Rule("VectorSpace",
              <<G1("Commutative", g.self), G1("Associative", g.self),
                G1("Identity", g.self), G1("Inverse", g.self),
                G2("MulIdent", g.self, g.arg), G2("Distributive", g.self, g.arg),
                G1("One", g.arg)>>)
    ELSE {}

\* Every impl of the crate whose header unifies with goal g.
Candidates(g) ==
    ImplStdPrim(g) \cup ImplCopyComplex(g) \cup ImplCopyList(g)
        \cup ImplAddComplex(g) \cup ImplMulComplex(g) \cup ImplNegComplex(g)
        \cup ImplAddList(g) \cup ImplNegList(g)
        \cup ImplZeroPrim(g) \cup ImplZeroComplex(g) \cup ImplZeroList(g)
        \cup ImplOnePrim(g) \cup ImplOneComplex(g) \cup ImplOneList(g)
        \cup ImplMulScalarSelf(g) \cup ImplMulScalarList(g)
        \cup ImplCommutativeComplex(g) \cup ImplCommutativeList(g)
        \cup ImplCommutativeF64(g)
        \cup ImplAssociativeComplex(g) \cup ImplAssociativeList(g)
        \cup ImplAssociativeF64(g)
        \cup ImplIdentityComplex(g) \cup ImplIdentityList(g) \cup ImplIdentityF64(g)
        \cup ImplInverseComplex(g) \cup ImplInverseList(g) \cup ImplInverseF64(g)
        \cup ImplMulIdentComplex(g) \cup ImplMulIdentSelf(g) \cup ImplMulIdentList(g)
        \cup ImplDistributiveF64(g) \cup ImplDistributiveComplex(g)
        \cup ImplDistributiveList(g)
        \cup ImplVectorSpace(g)

\* The certificate "g holds": some impl unifies with g and every one of its
\* where-clauses holds in turn.
RECURSIVE Holds(_)
Holds(g) ==
    \E c \in Candidates(g) : \A i \in 1..Len(c.where) : Holds(c.where[i])

(***************************************************************************)
(* The resolver.  root is the query (accept_field::<T, X>() asks for       *)
(* T: VectorSpace<X>), stack the obligations still open, selected the      *)
(* impls chosen so far with the goals they were chosen for.                *)
(***************************************************************************)

ArithIdle ==
    /\ ty = "none" /\ x = <<>> /\ y = <<>> /\ op = "none" /\ result = <<>>
    /\ overflow_checks = FALSE

InitTraits ==
    /\ root \in Goals
    /\ stack = <<root>>
    /\ selected = {}
    /\ status = "resolving"
    /\ ArithIdle

\* The head obligation is matched by an impl: the impl's where-clauses
\* replace it.
SelectImpl ==
    /\ status = "resolving" /\ stack # <<>>
    /\ \E c \in Candidates(Head(stack)) :
          /\ stack' = c.where \o Tail(stack)
          /\ selected' = selected \cup {[goal |-> Head(stack), impl |-> c.impl]}
    /\ UNCHANGED <<root, status>>
    /\ UNCHANGED arithVars

\* No impl matches the head obligation: the bound is not satisfied.
NoImpl ==
    /\ status = "resolving" /\ stack # <<>>
    /\ Candidates(Head(stack)) = {}
    /\ status' = "rejected"
    /\ UNCHANGED <<root, stack, selected>>
    /\ UNCHANGED arithVars

\* Every obligation is discharged: the query type-checks.
Accept ==
    /\ status = "resolving" /\ stack = <<>>
    /\ status' = "accepted"
    /\ UNCHANGED <<root, stack, selected>>
    /\ UNCHANGED arithVars

NextTraits == SelectImpl \/ NoImpl \/ Accept

Spec == InitTraits /\ [][NextTraits]_vars

Resolved == status \in {"accepted", "rejected"}

\* The resolver's verdict is the certificate.
VerdictIsHolds == Resolved => (status = "accepted" <=> Holds(root))

\* Coherence: at most one impl matches any goal.
Coherent == \A g \in Goals : Cardinality(Candidates(g)) <= 1

UsedImpls == {s.impl : s \in selected}

(***************************************************************************)
(* Part B.  Element arithmetic                                             *)
(*                                                                         *)
(* An operation yields Ok(v) or Panic.  Integer elements are IntBits wide: *)
(* an overflowing +, - or * panics when the build checks overflow and      *)
(* wraps otherwise; division by zero and IntMin / -1 panic in every build. *)
(***************************************************************************)

\* Width of the machine integers of the model (isize and usize).
IntBits == 7

IntMin == -(2 ^ (IntBits - 1))

IntMax == 2 ^ (IntBits - 1) - 1

Panic == <<>>

Ok(v) == <<v>>

IsOk(r) == r # Panic

Val(r) == r[1]

InRange(k, n) ==
    IF k = "usize" THEN n >= 0 /\ n < 2 ^ IntBits ELSE n >= IntMin /\ n <= IntMax

Wrap(k, n) ==
    IF k = "usize" THEN n % (2 ^ IntBits)
    ELSE ((n - IntMin) % (2 ^ IntBits)) + IntMin

\* The result n of an integer +, - or *, as the build delivers it.
IArith(k, n) ==
    IF InRange(k, n) THEN Ok(n)
    ELSE IF overflow_checks THEN Panic ELSE Ok(Wrap(k, n))

Abs(n) == IF n < 0 THEN -n ELSE n

\* Integer division truncates toward zero.
IDiv(k, a, b) ==
    IF b = 0 \/ (k = "isize" /\ a = IntMin /\ b = -1) THEN Panic
    ELSE Ok((IF (a < 0) = (b < 0) THEN 1 ELSE -1) * (Abs(a) \div Abs(b)))

(***************************************************************************)
(* f64 on the values NaN, +-inf, +-0 and +-m * 2^e (m odd): every result   *)
(* below is exactly representable, so no rounding takes place.  Division   *)
(* of finite values is defined where it is exact: by a power of two, and   *)
(* of a value by itself or its negation.                                   *)
(***************************************************************************)

NaN == [c |-> "nan", s |-> 1, m |-> 0, e |-> 0]

Inf(s) == [c |-> "inf", s |-> s, m |-> 0, e |-> 0]

FZero(s) == [c |-> "zero", s |-> s, m |-> 0, e |-> 0]

RECURSIVE Fin(_, _, _)
Fin(s, m, e) ==
    IF m % 2 = 0 THEN Fin(s, m \div 2, e + 1)
    ELSE [c |-> "fin", s |-> s, m |-> m, e |-> e]

FNeg(p) == IF p.c = "nan" THEN p ELSE [p EXCEPT !.s = -p.s]

FMul(p, q) ==
    CASE p.c = "nan" \/ q.c = "nan" -> NaN
      [] (p.c = "inf" /\ q.c = "zero") \/ (p.c = "zero" /\ q.c = "inf") -> NaN
      [] p.c = "inf" \/ q.c = "inf" -> Inf(p.s * q.s)
      [] p.c = "zero" \/ q.c = "zero" -> FZero(p.s * q.s)
      [] OTHER -> Fin(p.s * q.s, p.m * q.m, p.e + q.e)

FAdd(p, q) ==
    CASE p.c = "nan" \/ q.c = "nan" -> NaN
      [] p.c = "inf" /\ q.c = "inf" -> IF p.s = q.s THEN p ELSE NaN
      [] p.c = "inf" -> p
      [] q.c = "inf" -> q
      [] p.c = "zero" /\ q.c = "zero" -> IF p.s = q.s THEN p ELSE FZero(1)
      [] p.c = "zero" -> q
      [] q.c = "zero" -> p
      [] OTHER ->
            LET e0 == IF p.e < q.e THEN p.e ELSE q.e
                n  == p.s * p.m * 2 ^ (p.e - e0) + q.s * q.m * 2 ^ (q.e - e0)
            IN  IF n = 0 THEN FZero(1)
                ELSE Fin(IF n < 0 THEN -1 ELSE 1, Abs(n), e0)

FSub(p, q) == FAdd(p, FNeg(q))

FDiv(p, q) ==
    CASE p.c = "nan" \/ q.c = "nan" -> NaN
      [] p.c = "inf" /\ q.c = "inf" -> NaN
      [] p.c = "zero" /\ q.c = "zero" -> NaN
      [] p.c = "inf" -> Inf(p.s * q.s)
      [] q.c = "inf" -> FZero(p.s * q.s)
      [] q.c = "zero" -> Inf(p.s * q.s)
      [] p.c = "zero" -> FZero(p.s * q.s)
      [] p.c = "fin" /\ q.c = "fin" /\ q.m = 1 -> Fin(p.s * q.s, p.m, p.e - q.e)
      [] p.c = "fin" /\ q.c = "fin" /\ q.m # 1 /\ p.m = q.m /\ p.e = q.e ->
            Fin(p.s * q.s, 1, 0)

(***************************************************************************)
(* The operators of an element type k ("usize", "isize" or "f64").         *)
(***************************************************************************)

Add(k, a, b) == IF k = "f64" THEN Ok(FAdd(a, b)) ELSE IArith(k, a + b)

Sub(k, a, b) == IF k = "f64" THEN Ok(FSub(a, b)) ELSE IArith(k, a - b)

Mul(k, a, b) == IF k = "f64" THEN Ok(FMul(a, b)) ELSE IArith(k, a * b)

Div(k, a, b) == IF k = "f64" THEN Ok(FDiv(a, b)) ELSE IDiv(k, a, b)

Neg(k, a) == IF k = "f64" THEN Ok(FNeg(a)) ELSE IArith(k, -a)

\* impl One for usize / isize / f64:  1, 1, 1.0
One(k) == IF k = "f64" THEN Fin(1, 1, 0) ELSE 1

\* r1 + r2, r1 - r2 and r1 / r2 on the outcomes of two operand expressions:
\* a panic in either operand propagates.
ThenAdd(k, r1, r2) ==
    IF r1 = Panic \/ r2 = Panic THEN Panic ELSE Add(k, Val(r1), Val(r2))

ThenSub(k, r1, r2) ==
    IF r1 = Panic \/ r2 = Panic THEN Panic ELSE Sub(k, Val(r1), Val(r2))

ThenDiv(k, r1, r2) ==
    IF r1 = Panic \/ r2 = Panic THEN Panic ELSE Div(k, Val(r1), Val(r2))

\* Complex { a: ra, b: rb } of two component outcomes.
MkComplex(ra, rb) ==
    IF ra = Panic \/ rb = Panic THEN Panic ELSE Ok([a |-> Val(ra), b |-> Val(rb)])

(***************************************************************************)
(* Complex<T> and List<T, N>, revision definitions.rs                      *)
(***************************************************************************)

\* Faulty variant: the real part adds the two products.
ComplexMulPlus(k, self, rhs) ==
    MkComplex(ThenAdd(k, Mul(k, self.a, rhs.a), Mul(k, self.b, rhs.b)),
              ThenAdd(k, Mul(k, self.a, rhs.b), Mul(k, self.b, rhs.a)))

\* impl<T> Mul for Complex<T>
ComplexMul(k, self, rhs) ==
    MkComplex(ThenSub(k, Mul(k, self.a, rhs.a), Mul(k, self.b, rhs.b)),
              ThenAdd(k, Mul(k, self.a, rhs.b), Mul(k, self.b, rhs.a)))

\* Faulty variant: both components negate self.a.
ComplexNegDup(k, self) == MkComplex(Neg(k, self.a), Neg(k, self.a))

\* impl<T> Neg for Complex<T>
ComplexNeg(k, self) == MkComplex(Neg(k, self.a), Neg(k, self.b))

\* impl<T> One for Complex<T>
ComplexOne(k) == [a |-> One(k), b |-> One(k)]

\* impl MulInverse for Complex<f64>
MulInverseComplex(self) ==
    MkComplex(Div("f64", One("f64"), self.a), Div("f64", One("f64"), self.b))

\* impl<T> Divide for T where T: Mul<Output = T> + MulInverse, at T = Complex<f64>
Divide(self, rhs) ==
    LET inv == MulInverseComplex(rhs)
    IN  IF inv = Panic THEN Panic ELSE ComplexMul("f64", self, Val(inv))

\* The loop of List::add from position i on: *a = *a + b over the zipped elements.
RECURSIVE ListAddFrom(_, _, _, _)
ListAddFrom(k, self, rhs, i) ==
    IF i > Len(self) \/ i > Len(rhs) THEN Ok(self)
    ELSE LET r == Add(k, self[i], rhs[i])
         IN  IF r = Panic THEN Panic
             ELSE ListAddFrom(k, [self EXCEPT ![i] = Val(r)], rhs, i + 1)

\* Faulty variant: the loop leaves the first element alone.
ListAddSkipFirst(k, self, rhs) == ListAddFrom(k, self, rhs, 2)

\* impl<T, const N: usize> Add for List<T, N>
ListAdd(k, self, rhs) == ListAddFrom(k, self, rhs, 1)

\* impl<T, const N: usize> Neg for List<T, N>
ListNeg(k, self) ==
    IF \E i \in 1..Len(self) : Neg(k, self[i]) = Panic THEN Panic
    ELSE Ok([i \in 1..Len(self) |-> Val(Neg(k, self[i]))])

(***************************************************************************)
(* Complex<T>, revision definitions/mod.rs                                 *)
(***************************************************************************)

\* impl<T> Mul for Complex<T>
ComplexMulMod(k, self, rhs) ==
    MkComplex(ThenSub(k, Mul(k, self.a, rhs.a), Mul(k, self.b, rhs.b)),
              ThenAdd(k, Mul(k, self.a, rhs.b), Mul(k, self.b, rhs.a)))

\* impl<T> Neg for Complex<T>
ComplexNegMod(k, self) == MkComplex(Neg(k, self.a), Neg(k, self.b))

\* Faulty variant: a single self-division,  a / a,  b / b.
ComplexInverseOnce(k, self) ==
    MkComplex(Div(k, self.a, self.a), Div(k, self.b, self.b))

\* Complex::inverse:  a / a / a,  b / b / b
ComplexInverseMod(k, self) ==
    MkComplex(ThenDiv(k, Div(k, self.a, self.a), Ok(self.a)),
              ThenDiv(k, Div(k, self.b, self.b), Ok(self.b)))

\* impl<T> Div for Complex<T>
ComplexDivMod(k, self, rhs) ==
    LET inv == ComplexInverseMod(k, rhs)
    IN  IF inv = Panic THEN Panic ELSE ComplexMulMod(k, self, Val(inv))

(***************************************************************************)
(* The operand pairs the operations are applied to.                        *)
(***************************************************************************)

\* Largest magnitude of the ordinary integer components.
MaxComp == 4

\* Largest length N of the lists.
MaxLen == 3

\* Largest magnitude of the exponent of the finite f64 components.
MaxExp == 1

IntComps == (-MaxComp..MaxComp) \cup {IntMin}

ListElems == {IntMin, -1, 2}

F64Comps ==
    {NaN, Inf(1), Inf(-1), FZero(1), FZero(-1)}
        \cup {Fin(s, 1, e) : s \in {1, -1}, e \in (-MaxExp)..MaxExp}

F64Lhs == {Fin(1, 1, 0), Fin(-1, 1, 1), Fin(1, 3, 0)}

PrimVals(k) ==
    CASE k = "isize" -> IntComps \cup {IntMax}
      [] k = "usize" -> (0..MaxComp) \cup {2 ^ IntBits - 1}
      [] k = "f64" -> F64Comps

\* The element type of the operands: T of Complex<T> and List<T, N>, or the
\* primitive type itself.
Kind == IF ty \in Prims THEN ty[1] ELSE Elem(ty)[1]

TraitsIdle ==
    /\ root = G1("Add", <<"f64">>) /\ stack = <<>> /\ selected = {}
    /\ status = "idle"

InitArith ==
    /\ TraitsIdle
    /\ op = "none" /\ result = <<>>
    /\ overflow_checks \in BOOLEAN
    /\ \/ /\ ty = ComplexOf(<<"f64">>)
          /\ x \in [a : F64Lhs, b : F64Lhs]
          /\ y \in [a : F64Comps, b : F64Comps]
       \/ /\ ty = ComplexOf(<<"isize">>)
          /\ x \in [a : IntComps, b : IntComps]
          /\ y \in [a : IntComps, b : IntComps]
       \/ /\ \E n \in 1..MaxLen :
                /\ ty = ListOf(<<"isize">>, n)
                /\ x \in [1..n -> ListElems]
                /\ y \in [1..n -> ListElems]
       \/ /\ ty = ListOf(<<"isize">>, 3)
          /\ x = <<1, 2, 3>> /\ y = <<10, 20, 30>>
       \/ /\ \E t \in Prims :
                /\ ty = t
                /\ x \in PrimVals(t[1])
                /\ y = x

Apply(name, r) ==
    /\ op = "none"
    /\ op' = name
    /\ result' = r
    /\ UNCHANGED <<ty, x, y, overflow_checks>>
    /\ UNCHANGED traitVars

\* The operation applied to the outcome of the operation named before.
Again(before, name, r) ==
    /\ op = before /\ IsOk(result)
    /\ op' = name
    /\ result' = r
    /\ UNCHANGED <<ty, x, y, overflow_checks>>
    /\ UNCHANGED traitVars

\* x * y, definitions.rs
MulRs == IsComplex(ty) /\ Apply("mul_rs", ComplexMul(Kind, x, y))

\* x * y, definitions/mod.rs
MulMod == IsComplex(ty) /\ Apply("mul_mod", ComplexMulMod(Kind, x, y))

\* -x and then -(-x), definitions.rs
NegRs ==
    /\ IsComplex(ty)
    /\ \/ Apply("neg_rs", ComplexNeg(Kind, x))
       \/ Again("neg_rs", "negneg_rs", ComplexNeg(Kind, Val(result)))

\* -x and then -(-x), definitions/mod.rs
NegMod ==
    /\ IsComplex(ty)
    /\ \/ Apply("neg_mod", ComplexNegMod(Kind, x))
       \/ Again("neg_mod", "negneg_mod", ComplexNegMod(Kind, Val(result)))

\* -x and then -(-x) on lists
NegList ==
    /\ IsList(ty)
    /\ \/ Apply("neg_list", ListNeg(Kind, x))
       \/ Again("neg_list", "negneg_list", ListNeg(Kind, Val(result)))

\* x + y on lists
AddList == IsList(ty) /\ Apply("add_list", ListAdd(Kind, x, y))

\* x * ONE, with the ONE of x's own type
MulOne ==
    \/ ty \in Prims /\ Apply("mul_one", Mul(Kind, x, One(Kind)))
    \/ IsComplex(ty) /\ Apply("mul_one", ComplexMul(Kind, x, ComplexOne(Kind)))

\* y.inverse(), definitions.rs
InverseRs ==
    ty = ComplexOf(<<"f64">>) /\ Apply("inverse_rs", MulInverseComplex(y))

\* y.inverse(), definitions/mod.rs
InverseMod == IsComplex(ty) /\ Apply("inverse_mod", ComplexInverseMod(Kind, y))

\* x.divide(y), definitions.rs
DivideRs == ty = ComplexOf(<<"f64">>) /\ Apply("divide_rs", Divide(x, y))

\* x / y, definitions/mod.rs
DivMod == IsComplex(ty) /\ Apply("div_mod", ComplexDivMod(Kind, x, y))

NextArith ==
    \/ MulRs \/ MulMod \/ NegRs \/ NegMod \/ NegList \/ AddList \/ MulOne
    \/ InverseRs \/ InverseMod \/ DivideRs \/ DivMod

SpecArith == InitArith /\ [][NextArith]_vars

(***************************************************************************)
(* Properties of trait resolution (specification Spec)                     *)
(***************************************************************************)

F64 == <<"f64">>

Discharged(g) == \E s \in selected : s.goal = g

\* The seven constituents the claim lists for the pair (v, f).
SevenOf(v, f) ==
    {G1("Commutative", v), G1("Associative", v), G1("Identity", v),
     G1("Inverse", v), G2("MulIdent", v, f), G2("Distributive", v, f),
     G1("One", f)}

\* C1: a query V: VectorSpace<F> is accepted exactly when each of the seven
\* constituents (Commutative, Associative, Identity, Inverse, MulIdent<F>,
\* Distributive<F> of V, and One of F) holds; an accepted query discharged
\* every one of them, and the only impl ever chosen for a VectorSpace goal
\* is the blanket impl.
C1_VectorSpaceIsConjunction ==
    /\ (Resolved /\ root.tr = "VectorSpace") =>
          /\ status = "accepted" <=> \A c \in SevenOf(root.self, root.arg) : Holds(c)
          /\ status = "accepted" =>
                \A c \in SevenOf(root.self, root.arg) : Discharged(c)
    /\ \A s \in selected : s.goal.tr = "VectorSpace" => s.impl = "VectorSpace"

\* C1 witness: a VectorSpace query was rejected although the four additive
\* capabilities of V hold.
C1_Witness ==
    /\ root.tr = "VectorSpace" /\ status = "rejected"
    /\ \A tr \in {"Commutative", "Associative", "Identity", "Inverse"} :
          Holds(G1(tr, root.self))
    /\ root.self # ComplexOf(F64)

\* C2: the query Complex<f64>: VectorSpace<f64> is never accepted; once
\* resolved it is rejected.
C2_ComplexNotOverReal ==
    root = G2("VectorSpace", ComplexOf(F64), F64) =>
        /\ status # "accepted"
        /\ stack = <<>> => status = "rejected"

\* C2 witness: the query Complex<f64>: VectorSpace<f64> has been rejected.
C2_Witness ==
    root = G2("VectorSpace", ComplexOf(F64), F64) /\ status = "rejected"

ScratchPadPairs ==
    {G2("VectorSpace", ListOf(F64, 3), F64),
     G2("VectorSpace", ComplexOf(F64), ComplexOf(F64)),
     G2("VectorSpace", F64, F64)}

\* C3: the queries of scratch_pad, (List<f64, 3>, f64), (Complex<f64>,
\* Complex<f64>) and (f64, f64), are never rejected, and each holds the
\* VectorSpace certificate.
C3_ScratchPadAccepted ==
    root \in ScratchPadPairs => (status # "rejected" /\ Holds(root))

\* C3 witness: List<f64, 3>: VectorSpace<f64> has been accepted.
C3_Witness ==
    root = G2("VectorSpace", ListOf(F64, 3), F64) /\ status = "accepted"

AdditiveCaps == {"Commutative", "Associative", "Identity", "Inverse"}

\* C4: for each additive capability, a resolved query for Complex<T> or
\* List<T, N> is accepted if and only if T holds the capability; wrappers
\* of usize and isize are rejected.
C4_WrappersInherit ==
    (Resolved /\ root.tr \in AdditiveCaps /\ root.self \notin Prims) =>
        /\ status = "accepted" <=> Holds(G1(root.tr, Elem(root.self)))
        /\ Elem(root.self) \in {<<"usize">>, <<"isize">>} => status = "rejected"

\* C4 witness: a list of complex numbers over f64 was accepted for a capability.
C4_Witness ==
    /\ root.tr \in AdditiveCaps /\ status = "accepted"
    /\ root.self = ListOf(ComplexOf(F64), 3)

\* C10: an accepted query never used the impl of MulIdent<T> for Complex<T>;
\* a Complex type has scalar multiplication only by itself; and
\* Complex<T>: VectorSpace<F> is accepted only for F = Complex<T>.
C10_ComplexOnlyOverItself ==
    /\ status = "accepted" => "MulIdentComplex" \notin UsedImpls
    /\ (status = "accepted" /\ IsComplex(root.self)
            /\ root.tr \in {"MulScalar", "VectorSpace"}) => root.arg = root.self

\* C10 witness: the impl of MulIdent<T> for Complex<T> was tried for a
\* VectorSpace query, and the query was rejected.
C10_Witness ==
    /\ root.tr = "VectorSpace" /\ status = "rejected"
    /\ "MulIdentComplex" \in UsedImpls

(***************************************************************************)
(* Properties of the arithmetic (specification SpecArith)                  *)
(***************************************************************************)

ISize == <<"isize">>

\* Components within the ordinary range, where no product or sum overflows.
Ordinary(z) == Abs(z.a) <= MaxComp /\ Abs(z.b) <= MaxComp

\* C5: over integer components of a bounded range, x * y is
\* Complex(a*c - b*d, a*d + b*c) in both revisions; in particular
\* Complex(1,2) * Complex(3,4) is Complex(-5, 10).
C5_ComplexProductRule ==
    (ty = ComplexOf(ISize) /\ op \in {"mul_rs", "mul_mod"}
        /\ Ordinary(x) /\ Ordinary(y)) =>
        /\ result = Ok([a |-> x.a * y.a - x.b * y.b, b |-> x.a * y.b + x.b * y.a])
        /\ (x = [a |-> 1, b |-> 2] /\ y = [a |-> 3, b |-> 4]) =>
               result = Ok([a |-> -5, b |-> 10])

\* C5 witness: Complex(1,2) * Complex(3,4) was computed by definitions.rs.
C5_Witness ==
    /\ ty = ComplexOf(ISize) /\ op = "mul_rs"
    /\ x = [a |-> 1, b |-> 2] /\ y = [a |-> 3, b |-> 4]

\* C6: x * ONE == x for every x of a primitive type and of Complex<T>.
C6_OneIsIdentity == op = "mul_one" => result = Ok(x)

\* C7: list addition yields exactly N elements, element i being u[i] + v[i]
\* under the element type's own +; it fails only where one of these sums
\* does; in particular [1,2,3] + [10,20,30] is [11,22,33].
C7_ListAddPairwise ==
    (IsList(ty) /\ op = "add_list") =>
        LET n == ty[3]
        IN  /\ Len(x) = n /\ Len(y) = n
            /\ result = Panic <=> \E i \in 1..n : Add(Kind, x[i], y[i]) = Panic
            /\ IsOk(result) =>
                  /\ Len(Val(result)) = n
                  /\ \A i \in 1..n : Val(result)[i] = Val(Add(Kind, x[i], y[i]))
            /\ (\A i \in 1..n : InRange(Kind, x[i] + y[i])) =>
                  /\ IsOk(result)
                  /\ \A i \in 1..n : Val(result)[i] = x[i] + y[i]
            /\ (x = <<1, 2, 3>> /\ y = <<10, 20, 30>>) => result = Ok(<<11, 22, 33>>)

\* C7 witness: [1,2,3] + [10,20,30] was computed.
C7_Witness ==
    op = "add_list" /\ x = <<1, 2, 3>> /\ y = <<10, 20, 30>> /\ IsOk(result)

NegOps == {"neg_rs", "neg_mod", "neg_list"}

NegNegOps == {"negneg_rs", "negneg_mod", "negneg_list"}

HasIntMin ==
    IF IsList(ty) THEN \E i \in 1..Len(x) : x[i] = IntMin
    ELSE x.a = IntMin \/ x.b = IntMin

SignedInt == ty \notin Prims /\ Kind = "isize"

\* C8 as claimed: over a signed integer element type, the most negative
\* value included, both negations succeed and -(-x) == x.
C8_NegInvolutionAll ==
    SignedInt =>
        /\ op \in NegOps => IsOk(result)
        /\ op \in NegNegOps => result = Ok(x)

\* C8 amended: -(-x) == x for every x none of whose components is the most
\* negative value, and for every x in a build without overflow checks; with
\* overflow checks, negating an x that has such a component panics.
C8_NegInvolution ==
    SignedInt =>
        /\ (~HasIntMin \/ ~overflow_checks) =>
              /\ op \in NegOps => IsOk(result)
              /\ op \in NegNegOps => result = Ok(x)
        /\ (HasIntMin /\ overflow_checks /\ op \in NegOps) => result = Panic

\* C8 witness: -(-x) was computed for a Complex x holding the most negative
\* value, in a build without overflow checks.
C8_Witness ==
    /\ ty = ComplexOf(ISize) /\ op = "negneg_rs" /\ x.a = IntMin /\ x.b = 2
    /\ ~overflow_checks

Nonzero(v) == v.c # "zero"

FiniteNonzero(v) == v.c = "fin"

\* What the other revision computes for the operation the state holds.
OtherRevision ==
    CASE op = "inverse_rs" -> ComplexInverseMod("f64", y)
      [] op = "inverse_mod" -> MulInverseComplex(y)
      [] op = "divide_rs" -> ComplexDivMod("f64", x, y)
      [] op = "div_mod" -> Divide(x, y)

InverseOps == {"inverse_rs", "inverse_mod", "divide_rs", "div_mod"}

\* C9 as claimed: whenever both components of the divisor are nonzero, the
\* two revisions compute the same inverse and the same quotient.
C9_RevisionsAgreeNonzero ==
    (ty = ComplexOf(F64) /\ op \in InverseOps /\ Nonzero(y.a) /\ Nonzero(y.b)) =>
        result = OtherRevision

\* C9 amended: the two revisions compute the same inverse and the same
\* quotient whenever both components of the divisor are finite and nonzero;
\* the results differ only when a component is zero, infinite or NaN.
C9_RevisionsAgree ==
    (ty = ComplexOf(F64) /\ op \in InverseOps) =>
        /\ (FiniteNonzero(y.a) /\ FiniteNonzero(y.b)) => result = OtherRevision
        /\ result # OtherRevision =>
              \E v \in {y.a, y.b} : v.c \in {"zero", "inf", "nan"}

\* C9 witness: x / y was computed by definitions/mod.rs for a divisor with
\* finite nonzero components.
C9_Witness ==
    /\ ty = ComplexOf(F64) /\ op = "div_mod"
    /\ y.a.c = "fin" /\ y.b.c = "fin" /\ y.a # y.b
====
